---- MODULE Spec2Model ----
(***************************************************************************)
(* OAuth token lifecycle of the WAplus backend: the users table, the       *)
(* OAuth callback (find-or-create), the token guards (authenticateToken    *)
(* middleware and the contacts route's inline guard), the proxy handlers,  *)
(* the disconnect and delete routes, the session middlewares, the notes    *)
(* and reminders handlers, the profile controller and the contacts sync.   *)
(* Every await of the source (a database statement, a call to Google) is   *)
(* one step of a request, so requests interleave exactly at the suspension *)
(* points of the code.  Spec starts from the empty table; SpecShared,      *)
(* SpecAccount, SpecOwned, SpecRefresh and SpecSync start from registered  *)
(* users, and SpecDecide from every state of one user's row.               *)
(*                                                                         *)
(* Time is counted in minutes.  Tokens are positive integers handed out by *)
(* the provider from a counter, so two provider responses never carry the  *)
(* same token.  Null is SQL NULL / JavaScript undefined.                   *)
(***************************************************************************)
EXTENDS Integers, FiniteSets, Sequences, TLC

Null == -1

\* ---- bounds of the model ------------------------------------------------
NumSlots == 2
MaxReq == 3
MaxTime == 2
MaxTok == 4
NumIds == 2
NumSubjects == 1
ShortLife == 1
LongLife == 6
MaxRows == 2
MaxContacts == 2
MaxPages == 2

\* ---- program constants --------------------------------------------------
\* 5 * 60 * 1000 ms, in minutes
REFRESH_SKEW == 5

Slots == 1..NumSlots
Subjects == 1..NumSubjects
Lifetimes == {ShortLife, LongLife}

GuardRoutes == {"api", "contacts1", "contacts2", "contacts3"}
CallbackRoutes == {"coalesce", "overwrite"}

VARIABLES users, nextId, now, nextTok, started, req, issued, disconnected, resolved,
          oauthClient, grants, tables

vars == <<users, nextId, now, nextTok, started, req, issued, disconnected, resolved,
          oauthClient, grants, tables>>

NoTokens == [access_token |-> Null, refresh_token |-> Null, expiry |-> Null]

\* The tables beside users: notes and reminders (rows with id, user_id and
\* content, ids from each table's AUTO_INCREMENT) and contacts (rows with
\* user_id and google_contact_id).
NoRows ==
  [notes |-> {}, reminders |-> {}, contacts |-> {},
   seq |-> [notes |-> 1, reminders |-> 1]]

Idle ==
  [kind |-> "idle", route |-> "none", pc |-> "idle", uid |-> Null, sub |-> Null,
   snap |-> NoTokens, resp |-> NoTokens, found |-> Null, prior |-> {}, hit |-> FALSE, count |-> 0,
   calls |-> 0, writes |-> 0, revokes |-> 0, status |-> 0, handed |-> Null, sent |-> Null,
   checkedAt |-> Null, remote |-> "none", redirect |-> "none", before |-> NoTokens, after |-> NoTokens, op |-> "none",
   clientSent |-> Null, revoked |-> {}, cred |-> "none", removed |-> {},
   bearer |-> Null, owner |-> Null, listed |-> {}, touched |-> {},
   decision |-> "none", life |-> Null, refreshedAt |-> Null,
   fetched |-> {}]

\* The token columns of a row.
TokensOf(row) ==
  [access_token |-> row.google_access_token,
   refresh_token |-> row.google_refresh_token,
   expiry |-> row.access_token_expires_at]

\* The token columns of user u as a request sees them when its statement
\* has run; NoTokens when the row does not exist.
Stored(tbl, u) == IF u \in DOMAIN tbl THEN TokensOf(tbl[u]) ELSE NoTokens

\* SQL COALESCE(a, b)
Coalesce(a, b) == IF a # Null THEN a ELSE b

Init ==
  /\ users = <<>>
  /\ nextId = 1
  /\ now = 0
  /\ nextTok = 1
  /\ started = 0
  /\ req = [p \in Slots |-> Idle]
  /\ issued = {}
  /\ disconnected = {}
  /\ resolved = {}
  /\ oauthClient = Null
  /\ grants = {}
  /\ tables = NoRows

\* A request takes the lowest slot that is free (never used, or finished).
Free(p) == req[p].pc \in {"idle", "done"}

LowestFree(p) == Free(p) /\ \A q \in Slots : q < p => ~Free(q)

Finish(p, status) == [req EXCEPT ![p].pc = "done", ![p].status = status]

\* ---------------------------------------------------------------------------
\* Session: the app_jwt cookie.  A request that reaches a handler carries a
\* verified session for the internal id the callback signed into it.
\* ---------------------------------------------------------------------------
Sessions == {r[2] : r \in resolved}

\* ---------------------------------------------------------------------------
\* Token guard: authenticateToken (routes "api", "contacts1") and the inline
\* guard of GET /contacts (routes "contacts2", "contacts3").
\* ---------------------------------------------------------------------------
StartGuard(p) ==
  /\ LowestFree(p)
  /\ started < MaxReq
  /\ \E u \in Sessions, route \in GuardRoutes :
       req' = [req EXCEPT ![p] = [Idle EXCEPT !.kind = "guard", !.route = route,
                                              !.pc = "load", !.uid = u]]
  /\ started' = started + 1
  /\ UNCHANGED <<users, nextId, now, nextTok, issued, disconnected, resolved, oauthClient, grants, tables>>

\* SELECT google_access_token, google_refresh_token, access_token_expires_at
\* FROM users WHERE id = ?
GuardLoad(p) ==
  /\ req[p].kind = "guard" /\ req[p].pc = "load"
  /\ LET r == req[p] IN
       IF r.uid \notin DOMAIN users
       THEN req' = Finish(p, IF r.route \in {"api", "contacts1"} THEN 401 ELSE 404)
       ELSE req' = [req EXCEPT ![p].snap = TokensOf(users[r.uid]), ![p].found = r.uid,
                               ![p].pc = "check"]
  /\ UNCHANGED <<users, nextId, now, nextTok, started, issued, disconnected, resolved, oauthClient, grants, tables>>

\* Mutant: the grace period taken in the wrong unit.
NeedsRefreshMiddleware_WrongUnit(snap, t) ==
  \/ snap.access_token = Null
  \/ snap.expiry = Null
  \/ snap.expiry < t + REFRESH_SKEW * 60

\* authenticateToken: !google_access_token || !googleTokenExpiryDate ||
\*   googleTokenExpiryDate.getTime() < Date.now() + 5 * 60 * 1000
NeedsRefreshMiddleware(snap, t) ==
  \/ snap.access_token = Null
  \/ snap.expiry = Null
  \/ snap.expiry < t + REFRESH_SKEW

\* GET /contacts: !googleAccessToken || (accessTokenExpiresAt &&
\*   new Date(accessTokenExpiresAt).getTime() - now.getTime() < expiryThreshold)
NeedsRefreshContacts(snap, t) ==
  \/ snap.access_token = Null
  \/ (snap.expiry # Null /\ snap.expiry - t < REFRESH_SKEW)

\* authenticateToken, lines 93-99 and 136: refresh when the check says so
\* and a refresh token is there, 401 when it is not, else the stored token.
DecideMiddleware(snap, t) ==
  IF NeedsRefreshMiddleware(snap, t)
  THEN IF snap.refresh_token = Null THEN "reauth" ELSE "refresh"
  ELSE "use"

\* Mutant: the refresh is started without looking for a refresh token.
DecideContacts_NoRefreshTokenCheck(snap, t) ==
  IF NeedsRefreshContacts(snap, t) THEN "refresh" ELSE "use"

\* GET /contacts, lines 164-177.
DecideContacts(snap, t) ==
  IF NeedsRefreshContacts(snap, t)
  THEN IF snap.refresh_token # Null THEN "refresh" ELSE "reauth"
  ELSE "use"

UsesMiddleware(route) == route \in {"api", "contacts1"}

Decide(route, snap, t) ==
  IF UsesMiddleware(route) THEN DecideMiddleware(snap, t) ELSE DecideContacts(snap, t)

\* What follows a guard that has a token in hand.  The middleware calls
\* next() and the controller sends req.user.googleAccessToken; the inline
\* guard of GET /contacts calls the People API itself; the first contacts
\* route reads the token from the table once more before it calls out.
\* GET /contacts answers 401 when it is left without a token.
HandOn(r, token) ==
  IF r.route = "contacts1"
  THEN [r EXCEPT !.handed = token, !.pc = "reread"]
  ELSE IF token = Null /\ ~UsesMiddleware(r.route)
       THEN [r EXCEPT !.pc = "done", !.status = 401]
       ELSE [r EXCEPT !.handed = token, !.sent = token, !.pc = "done", !.status = 200]

\* Mutant: credentials once set on a client are not replaced.
SetCredentials_KeepsFirst(client, refreshToken) ==
  IF client # Null THEN client ELSE refreshToken

\* client.setCredentials({ refresh_token }): the refresh token the client
\* holds afterwards.
SetCredentials(client, refreshToken) == refreshToken

\* The continuation of the load: the expiry check against the clock, and
\* the start of the refresh call when one is needed.  The middleware makes
\* an OAuth2Client of its own for the call; GET /contacts sets the
\* credentials of the module's one oauthClient.  refreshAccessToken() puts
\* the refresh token its client holds at the time of the call into the
\* request it sends.
GuardCheck(p) ==
  /\ req[p].kind = "guard" /\ req[p].pc = "check"
  /\ LET d == Decide(req[p].route, req[p].snap, now)
         r == [req[p] EXCEPT !.checkedAt = now, !.decision = d]
         client == SetCredentials(IF UsesMiddleware(r.route) THEN Null ELSE oauthClient,
                                  r.snap.refresh_token)
     IN /\ req' = [req EXCEPT ![p] =
                     IF d = "use" THEN HandOn(r, r.snap.access_token)
                     ELSE IF d = "reauth" THEN [r EXCEPT !.pc = "done", !.status = 401]
                     ELSE [r EXCEPT !.pc = "refresh", !.calls = @ + 1, !.clientSent = client]]
        /\ oauthClient' = IF d = "refresh" /\ ~UsesMiddleware(r.route) THEN client ELSE oauthClient
  /\ UNCHANGED <<users, nextId, now, nextTok, started, issued, disconnected, resolved, grants, tables>>

\* The credentials of a successful refresh response that arrives at time t:
\* a new access token, the lifetime the provider chose, and a refresh token
\* only when the provider reissued one.
Credentials(token, life, reissued, t) ==
  [access_token |-> token, refresh_token |-> reissued,
   expires_in |-> life, expiry_date |-> t + life]

\* authenticateToken: new Date(Date.now() + credentials.expires_in * 1000);
\* refreshGoogleAccessToken: new Date(credentials.expiry_date)
NewExpiry(route, cred, t) ==
  IF UsesMiddleware(route) THEN t + cred.expires_in ELSE cred.expiry_date

\* The subjects a token was granted for.
GrantedTo(token) == {g[2] : g \in {x \in grants : x[1] = token}}

\* oauthClient.refreshAccessToken() resolves: the provider has minted an
\* access token for the subject of the refresh token it was sent.
RefreshOk(p) ==
  /\ req[p].kind = "guard" /\ req[p].pc = "refresh"
  /\ nextTok <= MaxTok
  /\ \E life \in Lifetimes :
       LET cred == Credentials(nextTok, life, Null, now)
           got == [access_token |-> cred.access_token,
                   refresh_token |-> cred.refresh_token,
                   expiry |-> NewExpiry(req[p].route, cred, now)]
       IN /\ req' = [req EXCEPT ![p].resp = got, ![p].life = life, ![p].refreshedAt = now,
                                  ![p].pc = "persist"]
          /\ issued' = issued \cup {<<got.access_token, got.expiry>>}
          /\ grants' = grants \cup {<<got.access_token, g>> : g \in GrantedTo(req[p].clientSent)}
  /\ nextTok' = nextTok + 1
  /\ UNCHANGED <<users, nextId, now, started, disconnected, resolved, oauthClient, tables>>

\* oauthClient.refreshAccessToken() rejects (error response or timeout).
\* part_009 and contacts.js answer 401; part_005 has no try around the
\* refresh, so its outer catch answers 500.
RefreshFail(p) ==
  /\ req[p].kind = "guard" /\ req[p].pc = "refresh"
  /\ req' = [req EXCEPT ![p].remote = "refresh_failed", ![p].pc = "done",
                        ![p].status = IF req[p].route = "contacts3" THEN 500 ELSE 401]
  /\ UNCHANGED <<users, nextId, now, nextTok, started, issued, disconnected, resolved, oauthClient, grants, tables>>

\* Mutant: the UPDATE leaves out the google_access_token column.
UpdateRefreshedMiddleware_StaleToken(row, got) ==
  [row EXCEPT !.access_token_expires_at = got.expiry,
              !.google_refresh_token = Coalesce(got.refresh_token, @)]

\* authenticateToken: UPDATE users SET google_access_token = ?,
\*   access_token_expires_at = ?, google_refresh_token = COALESCE(?, google_refresh_token)
\*   WHERE id = ?
UpdateRefreshedMiddleware(row, got) ==
  [row EXCEPT !.google_access_token = got.access_token,
              !.access_token_expires_at = got.expiry,
              !.google_refresh_token = Coalesce(got.refresh_token, @)]

\* Mutant: the UPDATE leaves out the access_token_expires_at column.
UpdateRefreshedContacts_NoExpiry(row, got) ==
  [row EXCEPT !.google_access_token = got.access_token]

\* refreshGoogleAccessToken: UPDATE users SET google_access_token = ?,
\*   access_token_expires_at = ? WHERE id = ?
UpdateRefreshedContacts(row, got) ==
  [row EXCEPT !.google_access_token = got.access_token,
              !.access_token_expires_at = got.expiry]

UpdateRefreshed(route, row, got) ==
  IF UsesMiddleware(route) THEN UpdateRefreshedMiddleware(row, got)
  ELSE UpdateRefreshedContacts(row, got)

\* The UPDATE of the refresh path and the hand-over that follows it.  An
\* UPDATE whose WHERE matches no row changes nothing and does not fail.
GuardPersist(p) ==
  /\ req[p].kind = "guard" /\ req[p].pc = "persist"
  /\ LET r == req[p]
         tbl == IF r.uid \in DOMAIN users
                THEN [users EXCEPT ![r.uid] = UpdateRefreshed(r.route, @, r.resp)]
                ELSE users
         r2 == [r EXCEPT !.writes = @ + 1, !.op = "update", !.hit = r.uid \in DOMAIN users,
                         !.before = Stored(users, r.uid), !.after = Stored(tbl, r.uid)]
     IN /\ users' = tbl
        /\ req' = [req EXCEPT ![p] = HandOn(r2, r.resp.access_token)]
  /\ UNCHANGED <<nextId, now, nextTok, started, issued, disconnected, resolved, oauthClient, grants, tables>>

\* GET /api/contacts, first revision: SELECT google_access_token FROM users
\* WHERE id = ?, 403 when it is missing, otherwise the People API call.
ContactsReread(p) ==
  /\ req[p].kind = "guard" /\ req[p].pc = "reread"
  /\ LET token == Stored(users, req[p].uid).access_token IN
       IF token = Null
       THEN req' = Finish(p, 403)
       ELSE req' = [req EXCEPT ![p].sent = token, ![p].pc = "done", ![p].status = 200]
  /\ UNCHANGED <<users, nextId, now, nextTok, started, issued, disconnected, resolved, oauthClient, grants, tables>>

\* ---------------------------------------------------------------------------
\* Photos route: verifyAuthToken, the router's own middleware, getPhotos.
\* ---------------------------------------------------------------------------
StartPhotos(p) ==
  /\ LowestFree(p)
  /\ started < MaxReq
  /\ \E u \in Sessions :
       req' = [req EXCEPT ![p] = [Idle EXCEPT !.kind = "photos", !.route = "photos",
                                              !.pc = "load", !.uid = u]]
  /\ started' = started + 1
  /\ UNCHANGED <<users, nextId, now, nextTok, issued, disconnected, resolved, oauthClient, grants, tables>>

\* SELECT google_access_token FROM users WHERE id = ?; 403 when there is
\* none; otherwise req.user.googleAccessToken is set and getPhotos sends it.
PhotosLoad(p) ==
  /\ req[p].kind = "photos" /\ req[p].pc = "load"
  /\ LET token == Stored(users, req[p].uid).access_token IN
       IF token = Null
       THEN req' = Finish(p, 403)
       ELSE req' = [req EXCEPT ![p].sent = token, ![p].pc = "done", ![p].status = 200]
  /\ UNCHANGED <<users, nextId, now, nextTok, started, issued, disconnected, resolved, oauthClient, grants, tables>>

\* ---------------------------------------------------------------------------
\* GET /auth/google/callback: the authorization code exchanger.  Route
\* "coalesce" is the first revision of routes/auth.js, route "overwrite" its
\* second revision (the same code is in routes/photos.js).
\* ---------------------------------------------------------------------------
StartCallback(p) ==
  /\ LowestFree(p)
  /\ started < MaxReq
  /\ \E g \in Subjects, route \in CallbackRoutes :
       req' = [req EXCEPT ![p] = [Idle EXCEPT !.kind = "callback", !.route = route,
                                              !.pc = "exchange", !.sub = g]]
  /\ started' = started + 1
  /\ UNCHANGED <<users, nextId, now, nextTok, issued, disconnected, resolved, oauthClient, grants, tables>>

\* client.getToken(code) and client.verifyIdToken(...) succeed: tokens with
\* expiry_date, and the subject of the id_token.
ExchangeOk(p) ==
  /\ req[p].kind = "callback" /\ req[p].pc = "exchange"
  /\ \E life \in Lifetimes, offline \in BOOLEAN :
       LET cred == Credentials(nextTok, life, IF offline THEN nextTok + 1 ELSE Null, now)
           got == [access_token |-> cred.access_token,
                   refresh_token |-> cred.refresh_token,
                   expiry |-> cred.expiry_date]
           used == IF offline THEN 2 ELSE 1
       IN /\ nextTok + used - 1 <= MaxTok
          /\ nextTok' = nextTok + used
          /\ req' = [req EXCEPT ![p].resp = got, ![p].pc = "lookup"]
          /\ issued' = issued \cup {<<got.access_token, got.expiry>>}
          /\ grants' = grants \cup {<<tok, req[p].sub>> :
                                      tok \in {got.access_token, got.refresh_token} \ {Null}}
  /\ UNCHANGED <<users, nextId, now, started, disconnected, resolved, oauthClient, tables>>

\* Mutant: the failure is logged and the handler goes on.
CallbackFailed_GoesOn(r, cause) ==
  [r EXCEPT !.remote = cause, !.pc = "lookup"]

\* catch (error): res.redirect(`${FRONTEND_URL}/login?error=...`)
CallbackFailed(r, cause) ==
  [r EXCEPT !.remote = cause, !.redirect = "login", !.pc = "done", !.status = 302]

\* client.getToken(code) throws (the provider refuses the code), or
\* client.verifyIdToken(...) throws (signature, audience or expiry of the
\* id_token): either way control passes to the catch of the handler.
ExchangeFail(p) ==
  /\ req[p].kind = "callback" /\ req[p].pc = "exchange"
  /\ \E cause \in {"exchange_failed", "verify_failed"} :
       req' = [req EXCEPT ![p] = CallbackFailed(req[p], cause)]
  /\ UNCHANGED <<users, nextId, now, nextTok, started, issued, disconnected, resolved, oauthClient, grants, tables>>

\* The rows that carry google_id g.
RowsByGoogleId(tbl, g) == {i \in DOMAIN tbl : tbl[i].google_id = g}

\* Mutant: the SELECT filters on a column that never holds the subject.
LookupUser_NeverFinds(tbl, g) == {i \in DOMAIN tbl : FALSE}

\* SELECT id FROM users WHERE google_id = ?
LookupUser(tbl, g) == {i \in DOMAIN tbl : tbl[i].google_id = g}

\* rows.length > 0 ? rows[0].id : none.  The callbacks that have already
\* signed a session for this subject are noted for the record.
CallbackLookup(p) ==
  /\ req[p].kind = "callback" /\ req[p].pc = "lookup"
  /\ LET rows == LookupUser(users, req[p].sub)
         prior == {r[2] : r \in {x \in resolved : x[1] = req[p].sub /\ x[2] \in DOMAIN users}}
     IN IF rows = {}
        THEN req' = [req EXCEPT ![p].found = Null, ![p].prior = prior, ![p].pc = "write"]
        ELSE \E i \in rows :
               req' = [req EXCEPT ![p].found = i, ![p].prior = prior, ![p].pc = "write"]
  /\ UNCHANGED <<users, nextId, now, nextTok, started, issued, disconnected, resolved, oauthClient, grants, tables>>

\* First revision: google_refresh_token = COALESCE(?, google_refresh_token)
UpdateLoginCoalesce(row, got) ==
  [row EXCEPT !.google_access_token = got.access_token,
              !.google_refresh_token = Coalesce(got.refresh_token, @),
              !.access_token_expires_at = got.expiry]

\* Second revision: google_refresh_token = ? with tokens.refresh_token || null
UpdateLoginOverwrite(row, got) ==
  [row EXCEPT !.google_access_token = got.access_token,
              !.google_refresh_token = got.refresh_token,
              !.access_token_expires_at = got.expiry]

UpdateLogin(route, row, got) ==
  IF route = "coalesce" THEN UpdateLoginCoalesce(row, got)
  ELSE UpdateLoginOverwrite(row, got)

\* INSERT INTO users (google_id, ..., google_access_token,
\*   google_refresh_token, access_token_expires_at) VALUES (...)
NewRow(g, got) ==
  [google_id |-> g, google_access_token |-> got.access_token,
   google_refresh_token |-> got.refresh_token,
   access_token_expires_at |-> got.expiry]

\* Mutant: a users table without the unique index.
InsertAccepted_NoUniqueIndex(tbl, g) == TRUE

\* The users table is created outside the application; its unique index on
\* google_id is the data model's "provider_subject_id: unique".
InsertAccepted(tbl, g) == RowsByGoogleId(tbl, g) = {}

\* The write of the callback, and what follows it without another await:
\* generateAppJwtToken(userId), the cookie and the redirect to /dashboard.
\* A refused INSERT throws, and the catch redirects to /login?error=...
CallbackWrite(p) ==
  /\ req[p].kind = "callback" /\ req[p].pc = "write"
  /\ LET r == req[p] IN
       IF r.found # Null
       THEN LET tbl == IF r.found \in DOMAIN users
                       THEN [users EXCEPT ![r.found] = UpdateLogin(r.route, @, r.resp)]
                       ELSE users
            IN /\ users' = tbl
               /\ nextId' = nextId
               /\ req' = [req EXCEPT ![p] = [r EXCEPT !.uid = r.found, !.writes = @ + 1,
                            !.op = "update", !.hit = r.found \in DOMAIN users,
                            !.count = Cardinality(RowsByGoogleId(tbl, r.sub)),
                            !.before = Stored(users, r.found),
                            !.after = Stored(tbl, r.found), !.redirect = "dashboard",
                            !.pc = "done", !.status = 302]]
               /\ resolved' = resolved \cup {<<r.sub, r.found>>}
               /\ disconnected' = IF r.found \in DOMAIN users
                                  THEN disconnected \ {r.found} ELSE disconnected
       ELSE IF InsertAccepted(users, r.sub)
            THEN /\ nextId <= NumIds
                 /\ users' = users @@ (nextId :> NewRow(r.sub, r.resp))
                 /\ nextId' = nextId + 1
                 /\ req' = [req EXCEPT ![p] = [r EXCEPT !.uid = nextId, !.writes = @ + 1,
                              !.op = "insert", !.hit = TRUE,
                              !.count = Cardinality(RowsByGoogleId(users, r.sub)) + 1,
                              !.after = r.resp, !.redirect = "dashboard",
                              !.pc = "done", !.status = 302]]
                 /\ resolved' = resolved \cup {<<r.sub, nextId>>}
                 /\ disconnected' = disconnected
            ELSE /\ req' = [req EXCEPT ![p] = [r EXCEPT !.op = "rejected", !.redirect = "login",
                              !.pc = "done", !.status = 302]]
                 /\ UNCHANGED <<users, nextId, resolved, disconnected>>
  /\ UNCHANGED <<now, nextTok, started, issued, oauthClient, grants, tables>>

\* ---------------------------------------------------------------------------
\* The session cookie as a request presents it: missing, not verifying (bad
\* signature, malformed), run out, or valid.
\* ---------------------------------------------------------------------------
SessionCookies == {"missing", "invalid", "expired", "valid"}

\* jwt.verify(token, secret): "ok", or the name of the error it throws.
JwtVerify(cookie) ==
  IF cookie = "valid" THEN "ok"
  ELSE IF cookie = "expired" THEN "TokenExpiredError"
  ELSE "JsonWebTokenError"

\* ---------------------------------------------------------------------------
\* POST /auth/disconnect (routes/photos.js): the revoker.
\* ---------------------------------------------------------------------------
\* Mutant: the cookie is decoded without being verified.
Decoded_Unverified(cookie) == cookie # "missing"

\* const decoded = jwt.verify(req.cookies.app_jwt, jwtSecret), the first
\* statement inside the try of /auth/disconnect and of /auth/delete: TRUE
\* when it returns, FALSE when it throws (no cookie, a cookie that does not
\* verify, a cookie that has run out).
Decoded(cookie) == JwtVerify(cookie) = "ok"

\* The request as it stands after that statement: on its way to the SELECT
\* with decoded.userId, or ended by the catch, which clears the cookie and
\* answers 500.
Entered(kind, u, cookie) ==
  IF Decoded(cookie)
  THEN [Idle EXCEPT !.kind = kind, !.route = kind, !.pc = "load", !.uid = u, !.cred = cookie]
  ELSE [Idle EXCEPT !.kind = kind, !.route = kind, !.pc = "done", !.status = 500,
                    !.cred = cookie]

StartDisconnect(p) ==
  /\ LowestFree(p)
  /\ started < MaxReq
  /\ \E u \in Sessions, cookie \in SessionCookies :
       req' = [req EXCEPT ![p] = Entered("disconnect", u, cookie)]
  /\ started' = started + 1
  /\ UNCHANGED <<users, nextId, now, nextTok, issued, disconnected, resolved, oauthClient, grants, tables>>

\* Mutant: the revoke call is made whether or not a token was found.
RevokeNeeded_Always(token) == TRUE

\* if (token)
RevokeNeeded(token) == token # Null

\* SELECT google_access_token FROM users WHERE id = ?, and the start of the
\* one call to the revoke endpoint, with body token=<google_access_token>,
\* that is made when rows[0]?.google_access_token is there.  The handler
\* reads only that column; snap keeps the whole row of that moment for the
\* record.
DisconnectLoad(p) ==
  /\ req[p].kind = "disconnect" /\ req[p].pc = "load"
  /\ LET r == [req[p] EXCEPT !.snap = Stored(users, req[p].uid),
                            !.found = IF req[p].uid \in DOMAIN users THEN req[p].uid ELSE Null]
         token == r.snap.access_token
     IN IF RevokeNeeded(token)
        THEN req' = [req EXCEPT ![p] = [r EXCEPT !.pc = "revoke", !.revokes = @ + 1,
                                                 !.revoked = @ \cup {token}]]
        ELSE req' = [req EXCEPT ![p] = [r EXCEPT !.pc = "nullify"]]
  /\ UNCHANGED <<users, nextId, now, nextTok, started, issued, disconnected, resolved, oauthClient, grants, tables>>

\* fetch(".../revoke") resolves: with a 2xx answer, or with an error answer
\* of the provider, which fetch does not turn into an exception.
RevokeAnswered(p) ==
  /\ req[p].kind \in {"disconnect", "delete"} /\ req[p].pc = "revoke"
  /\ \E answer \in {"ok", "rejected"} :
       req' = [req EXCEPT ![p].remote = answer,
                          ![p].pc = IF req[p].kind = "disconnect" THEN "nullify" ELSE "erase"]
  /\ UNCHANGED <<users, nextId, now, nextTok, started, issued, disconnected, resolved, oauthClient, grants, tables>>

\* fetch rejects (provider unreachable): the catch answers 500 and the
\* UPDATE (the DELETE, in /auth/delete) is never issued.
RevokeThrows(p) ==
  /\ req[p].kind \in {"disconnect", "delete"} /\ req[p].pc = "revoke"
  /\ req' = [req EXCEPT ![p].remote = "threw", ![p].after = Stored(users, req[p].uid),
                        ![p].pc = "done", ![p].status = 500]
  /\ UNCHANGED <<users, nextId, now, nextTok, started, issued, disconnected, resolved, oauthClient, grants, tables>>

\* Mutant: the UPDATE leaves out the access_token_expires_at column.
NullifyTokens_KeepsExpiry(row) ==
  [row EXCEPT !.google_access_token = Null,
              !.google_refresh_token = Null]

\* UPDATE users SET google_access_token = NULL, google_refresh_token = NULL,
\*   access_token_expires_at = NULL WHERE id = ?
NullifyTokens(row) ==
  [row EXCEPT !.google_access_token = Null,
              !.google_refresh_token = Null,
              !.access_token_expires_at = Null]

DisconnectNullify(p) ==
  /\ req[p].kind = "disconnect" /\ req[p].pc = "nullify"
  /\ LET r == req[p]
         tbl == IF r.uid \in DOMAIN users
                THEN [users EXCEPT ![r.uid] = NullifyTokens(@)]
                ELSE users
     IN /\ users' = tbl
        /\ req' = [req EXCEPT ![p] = [r EXCEPT !.writes = @ + 1, !.op = "nullify",
                     !.hit = r.uid \in DOMAIN users, !.before = Stored(users, r.uid), !.after = Stored(tbl, r.uid),
                     !.pc = "done", !.status = 200]]
        /\ disconnected' = IF r.uid \in DOMAIN users
                           THEN disconnected \cup {r.uid} ELSE disconnected
  /\ UNCHANGED <<nextId, now, nextTok, started, issued, resolved, oauthClient, grants, tables>>

\* ---------------------------------------------------------------------------
\* DELETE /auth/delete (routes/photos.js): the same load and revoke call as
\* the disconnect, then the DELETE of the row.  The session cookie is signed
\* and not stored, so a request that has passed its session check, or a
\* copy of the cookie, outlives the row.
\* ---------------------------------------------------------------------------
StartDelete(p) ==
  /\ LowestFree(p)
  /\ started < MaxReq
  /\ \E u \in Sessions, cookie \in SessionCookies :
       req' = [req EXCEPT ![p] = Entered("delete", u, cookie)]
  /\ started' = started + 1
  /\ UNCHANGED <<users, nextId, now, nextTok, issued, disconnected, resolved, oauthClient, grants, tables>>

\* SELECT google_access_token FROM users WHERE id = ?; if (token) fetch(...)
DeleteLoad(p) ==
  /\ req[p].kind = "delete" /\ req[p].pc = "load"
  /\ LET r == [req[p] EXCEPT !.snap = Stored(users, req[p].uid),
                            !.found = IF req[p].uid \in DOMAIN users THEN req[p].uid ELSE Null]
         token == r.snap.access_token
     IN IF RevokeNeeded(token)
        THEN req' = [req EXCEPT ![p] = [r EXCEPT !.pc = "revoke", !.revokes = @ + 1,
                                                 !.revoked = @ \cup {token}]]
        ELSE req' = [req EXCEPT ![p] = [r EXCEPT !.pc = "erase"]]
  /\ UNCHANGED <<users, nextId, now, nextTok, started, issued, disconnected, resolved, oauthClient, grants, tables>>

\* DELETE FROM users WHERE id = ?
EraseRow(tbl, u) == [i \in DOMAIN tbl \ {u} |-> tbl[i]]

\* The rows of user u in notes and reminders.
OwnedBy(tbls, u) ==
  {<<"notes", n.id>> : n \in {x \in tbls.notes : x.user_id = u}}
    \cup {<<"reminders", n.id>> : n \in {x \in tbls.reminders : x.user_id = u}}

\* Mutant: notes and reminders without the foreign key.
Cascade_None(tbls, u) == tbls

\* FOREIGN KEY (user_id) REFERENCES users(id) ON DELETE CASCADE, on
\* reminders and on notes: what the deletion of users row u does to them.
Cascade(tbls, u) ==
  [tbls EXCEPT !.notes = {n \in @ : n.user_id # u},
               !.reminders = {n \in @ : n.user_id # u}]

DeleteRow(p) ==
  /\ req[p].kind = "delete" /\ req[p].pc = "erase"
  /\ LET r == req[p] IN
       /\ users' = EraseRow(users, r.uid)
       /\ tables' = Cascade(tables, r.uid)
       /\ req' = [req EXCEPT ![p] = [r EXCEPT !.writes = @ + 1, !.op = "delete",
                    !.hit = r.uid \in DOMAIN users, !.before = Stored(users, r.uid),
                    !.after = NoTokens, !.count = Cardinality(OwnedBy(tables, r.uid)),
                    !.pc = "done", !.status = 200]]
  /\ UNCHANGED <<nextId, now, nextTok, started, issued, disconnected, resolved, oauthClient, grants>>

\* ---------------------------------------------------------------------------
\* deleteUserAccount (profile controller, behind verifyAuthToken): DELETE
\* FROM pinned_contacts, reminders, notes, each WHERE user_id = ?, then
\* DELETE FROM users WHERE id = ?; four statements on the pool, with no
\* transaction around them.  pinned_contacts has no other part in the model.
\* ---------------------------------------------------------------------------
StartPurge(p) ==
  /\ LowestFree(p)
  /\ started < MaxReq
  /\ \E u \in Sessions :
       req' = [req EXCEPT ![p] = [Idle EXCEPT !.kind = "purge", !.route = "purge",
                                              !.pc = "pinned_contacts", !.uid = u,
                                              !.cred = "valid"]]
  /\ started' = started + 1
  /\ UNCHANGED <<users, nextId, now, nextTok, issued, disconnected, resolved, oauthClient, grants, tables>>

\* DELETE FROM <table> WHERE user_id = ?
DeleteOwned(tbls, table, u) ==
  IF table = "reminders" THEN [tbls EXCEPT !.reminders = {n \in @ : n.user_id # u}]
  ELSE IF table = "notes" THEN [tbls EXCEPT !.notes = {n \in @ : n.user_id # u}]
  ELSE tbls

\* The statement after the one on `table`.
PurgeThen(table) ==
  IF table = "pinned_contacts" THEN "reminders"
  ELSE IF table = "reminders" THEN "notes"
  ELSE "users"

\* One of the three DELETEs ... WHERE user_id = ? runs.
PurgeOwned(p) ==
  /\ req[p].kind = "purge" /\ req[p].pc \in {"pinned_contacts", "reminders", "notes"}
  /\ LET r == req[p]
         tbls == DeleteOwned(tables, r.pc, r.uid)
     IN /\ tables' = tbls
        /\ req' = [req EXCEPT ![p] = [r EXCEPT !.writes = @ + 1,
                     !.removed = @ \cup (OwnedBy(tables, r.uid) \ OwnedBy(tbls, r.uid)),
                     !.pc = PurgeThen(r.pc)]]
  /\ UNCHANGED <<users, nextId, now, nextTok, started, issued, disconnected, resolved, oauthClient, grants>>

\* DELETE FROM users WHERE id = ? runs, and the answer is 200.
PurgeUser(p) ==
  /\ req[p].kind = "purge" /\ req[p].pc = "users"
  /\ LET r == req[p] IN
       /\ users' = EraseRow(users, r.uid)
       /\ tables' = Cascade(tables, r.uid)
       /\ req' = [req EXCEPT ![p] = [r EXCEPT !.writes = @ + 1, !.op = "delete",
                    !.hit = r.uid \in DOMAIN users, !.before = Stored(users, r.uid),
                    !.after = NoTokens,
                    !.removed = @ \cup OwnedBy(tables, r.uid),
                    !.pc = "done", !.status = 200]]
  /\ UNCHANGED <<nextId, now, nextTok, started, issued, disconnected, resolved, oauthClient, grants>>

\* A statement is refused (connection lost, lock wait timeout): execute
\* throws, and the catch answers 500.  What the statements before it have
\* deleted stays deleted.
PurgeFails(p) ==
  /\ req[p].kind = "purge" /\ req[p].pc \in {"pinned_contacts", "reminders", "notes", "users"}
  /\ req' = [req EXCEPT ![p].remote = "statement_failed", ![p].pc = "done", ![p].status = 500]
  /\ UNCHANGED <<users, nextId, now, nextTok, started, issued, disconnected, resolved, oauthClient, grants, tables>>

\* ---------------------------------------------------------------------------
\* Notes and reminders (notesController, remindersController, behind
\* verifyAuthToken).  Each handler writes with one statement, so the request
\* is one step: nothing of it is visible between its arrival and its write.
\* ---------------------------------------------------------------------------
OwnedTables == {"notes", "reminders"}

Contents == {"a", "b"}

RowsOf(tbls, table) == IF table = "notes" THEN tbls.notes ELSE tbls.reminders

WithRows(tbls, table, rows) ==
  IF table = "notes" THEN [tbls EXCEPT !.notes = rows] ELSE [tbls EXCEPT !.reminders = rows]

\* INSERT INTO notes (user_id, title, content) VALUES (?, ?, ?): the row
\* gets the next AUTO_INCREMENT id.  The foreign key refuses a user_id
\* that has no users row, and the catch answers 500.
CreateRow(p) ==
  /\ LowestFree(p)
  /\ started < MaxReq
  /\ \E u \in Sessions, table \in OwnedTables, content \in Contents :
       LET r == [Idle EXCEPT !.kind = "rows", !.route = table, !.op = "create",
                             !.uid = u, !.cred = "valid", !.pc = "done"]
           id == tables.seq[table]
       IN IF u \in DOMAIN users
          THEN /\ id <= MaxRows
               /\ tables' = [WithRows(tables, table, RowsOf(tables, table) \cup
                                {[id |-> id, user_id |-> u, content |-> content]})
                             EXCEPT !.seq[table] = id + 1]
               /\ req' = [req EXCEPT ![p] = [r EXCEPT !.found = id, !.writes = 1, !.status = 201]]
          ELSE /\ tables' = tables
               /\ req' = [req EXCEPT ![p] = [r EXCEPT !.status = 500]]
  /\ started' = started + 1
  /\ UNCHANGED <<users, nextId, now, nextTok, issued, disconnected, resolved, oauthClient, grants>>

\* ---------------------------------------------------------------------------
\* Session middlewares.  Each function gives the status the middleware
\* answers with, 0 when it calls next().
\* ---------------------------------------------------------------------------
\* verifyAuthToken (all three copies): 401 without a token, 403 when
\* jwt.verify throws.
VerifyAuthToken(cookie) ==
  IF cookie = "missing" THEN 401
  ELSE IF JwtVerify(cookie) = "ok" THEN 0
  ELSE 403

\* authenticateToken: 401 without a token; in the catch, 401 for
\* TokenExpiredError and 403 for any other error.
AuthenticateToken(cookie) ==
  IF cookie = "missing" THEN 401
  ELSE IF JwtVerify(cookie) = "ok" THEN 0
  ELSE IF JwtVerify(cookie) = "TokenExpiredError" THEN 401
  ELSE 403

\* verifyAppJwt: 401 without a token and 401 when jwt.verify throws.
VerifyAppJwt(cookie) ==
  IF cookie = "missing" THEN 401
  ELSE IF JwtVerify(cookie) = "ok" THEN 0
  ELSE 401

SessionMiddlewares == {"verifyAuthToken", "authenticateToken", "verifyAppJwt"}

SessionCheck(middleware, cookie) ==
  IF middleware = "verifyAuthToken" THEN VerifyAuthToken(cookie)
  ELSE IF middleware = "authenticateToken" THEN AuthenticateToken(cookie)
  ELSE VerifyAppJwt(cookie)

\* A request to a protected route that its session middleware turns away:
\* the answer is sent and next() is not called, so nothing else of the
\* request ever runs.
SessionRejected(p) ==
  /\ LowestFree(p)
  /\ started < MaxReq
  /\ \E middleware \in SessionMiddlewares, cookie \in SessionCookies :
       /\ SessionCheck(middleware, cookie) # 0
       /\ req' = [req EXCEPT ![p] = [Idle EXCEPT !.kind = "session", !.route = middleware,
                                                  !.cred = cookie, !.pc = "done",
                                                  !.status = SessionCheck(middleware, cookie)]]
  /\ started' = started + 1
  /\ UNCHANGED <<users, nextId, now, nextTok, issued, disconnected, resolved, oauthClient, grants, tables>>

\* ---------------------------------------------------------------------------
\* The refresh of authenticateToken when the credentials it gets back have
\* expiry_date and no expires_in, which is the form the other three callers
\* of refreshAccessToken() read (contacts.js:114, auth.js:80, photos.js:109).
\* ---------------------------------------------------------------------------
\* new Date(Date.now() + undefined * 1000): a Date that holds no time.
NotADate == Null - 1

\* refreshAccessToken() resolves with { access_token, expiry_date, ... }.
RefreshOkBare(p) ==
  /\ req[p].kind = "guard" /\ req[p].pc = "refresh"
  /\ UsesMiddleware(req[p].route)
  /\ nextTok <= MaxTok
  /\ \E life \in Lifetimes :
       LET got == [access_token |-> nextTok, refresh_token |-> Null, expiry |-> NotADate]
       IN /\ req' = [req EXCEPT ![p].resp = got, ![p].life = life, ![p].refreshedAt = now,
                                ![p].pc = "persist_bare"]
          /\ issued' = issued \cup {<<nextTok, now + life>>}
          /\ grants' = grants \cup {<<nextTok, g>> : g \in GrantedTo(req[p].clientSent)}
  /\ nextTok' = nextTok + 1
  /\ UNCHANGED <<users, nextId, now, started, disconnected, resolved, oauthClient, tables>>

\* What the database makes of the UPDATE whose date parameter holds no
\* time: it refuses the statement, or it stores the row with a date that is
\* no time.
BareOutcomes == {"refused", "stored"}

\* The UPDATE with that date, then newExpiryDate.toISOString() in the log
\* line after it, which throws RangeError; whichever of the two throws, the
\* catch around the refresh answers 401 and next() is not called.
PersistBare(p) ==
  /\ req[p].kind = "guard" /\ req[p].pc = "persist_bare"
  /\ \E outcome \in BareOutcomes :
       LET r == req[p]
           tbl == IF outcome = "stored" /\ r.uid \in DOMAIN users
                  THEN [users EXCEPT ![r.uid] = UpdateRefreshedMiddleware(@, r.resp)]
                  ELSE users
       IN /\ users' = tbl
          /\ req' = [req EXCEPT ![p] = [r EXCEPT !.writes = @ + 1,
                       !.op = IF outcome = "stored" THEN "update" ELSE "refused",
                       !.hit = r.uid \in DOMAIN users,
                       !.before = Stored(users, r.uid), !.after = Stored(tbl, r.uid),
                       !.pc = "done", !.status = 401]]
  /\ UNCHANGED <<nextId, now, nextTok, started, issued, disconnected, resolved, oauthClient, grants, tables>>

\* ---------------------------------------------------------------------------
\* syncContacts (contacts controller, behind authenticateToken): the pages
\* of people.connections.list, the INSERT ... ON DUPLICATE KEY UPDATE of
\* each batch, and the DELETE of the contacts Google no longer has.
\* ---------------------------------------------------------------------------
BATCH_SIZE == 100

\* The resourceNames Google may hold for a user.
ContactIds == 1..MaxContacts

\* The google_contact_ids stored for user u.
StoredContacts(tbls, u) ==
  {c.google_contact_id : c \in {x \in tbls.contacts : x.user_id = u}}

\* 401 GOOGLE_AUTH_REQUIRED when the middleware attached no access token.
StartSync(p) ==
  /\ LowestFree(p)
  /\ started < MaxReq
  /\ \E u \in Sessions :
       LET r == [Idle EXCEPT !.kind = "sync", !.route = "sync", !.uid = u,
                             !.handed = Stored(users, u).access_token]
       IN req' = [req EXCEPT ![p] =
                    IF r.handed = Null THEN [r EXCEPT !.pc = "done", !.status = 401]
                    ELSE [r EXCEPT !.pc = "fetch"]]
  /\ started' = started + 1
  /\ UNCHANGED <<users, nextId, now, nextTok, issued, disconnected, resolved, oauthClient, grants, tables>>

\* The number of INSERT statements for n contacts.
Batches(n) == (n + BATCH_SIZE - 1) \div BATCH_SIZE

\* The request after the last page: on to the first batch, or, with no
\* contact to save, past the loop and past the cleanup, which runs only
\* if (googleIds.length > 0), to the 200 answer.
AfterLastPage(r, tbls) ==
  IF r.fetched # {} THEN [r EXCEPT !.pc = "save", !.count = 0]
  ELSE [r EXCEPT !.pc = "done", !.status = 200, !.listed = StoredContacts(tbls, r.uid)]

\* One page of people.connections.list arrives, with or without a
\* nextPageToken.
SyncFetch(p) ==
  /\ req[p].kind = "sync" /\ req[p].pc = "fetch"
  /\ \E page \in SUBSET ContactIds, more \in BOOLEAN :
       /\ more => req[p].calls + 1 < MaxPages
       /\ LET r == [req[p] EXCEPT !.calls = @ + 1, !.fetched = @ \cup page]
          IN req' = [req EXCEPT ![p] = IF more THEN r ELSE AfterLastPage(r, tables)]
  /\ UNCHANGED <<users, nextId, now, nextTok, started, issued, disconnected, resolved, oauthClient, grants, tables>>

\* The People API answers with an error, or a statement is refused: the
\* catch answers with the error's status, 500 when it has none.
SyncFails(p) ==
  /\ req[p].kind = "sync" /\ req[p].pc \in {"fetch", "save", "cleanup"}
  /\ \E status \in {401, 403, 429, 500} :
       /\ req[p].pc # "fetch" => status = 500
       /\ req' = [req EXCEPT ![p].remote = "failed", ![p].pc = "done", ![p].status = status]
  /\ UNCHANGED <<users, nextId, now, nextTok, started, issued, disconnected, resolved, oauthClient, grants, tables>>

\* INSERT INTO contacts ... ON DUPLICATE KEY UPDATE for one batch: a row
\* for every contact of the batch that has none yet.
SyncSave(p) ==
  /\ req[p].kind = "sync" /\ req[p].pc = "save"
  /\ LET r == req[p]
         last == r.count + 1 >= Batches(Cardinality(r.fetched))
     IN /\ tables' = [tables EXCEPT !.contacts =
                        @ \cup {[user_id |-> r.uid, google_contact_id |-> c] : c \in r.fetched}]
        /\ req' = [req EXCEPT ![p] = [r EXCEPT !.count = @ + 1, !.writes = @ + 1,
                                        !.pc = IF last THEN "cleanup" ELSE "save"]]
  /\ UNCHANGED <<users, nextId, now, nextTok, started, issued, disconnected, resolved, oauthClient, grants>>

\* DELETE FROM contacts WHERE user_id = ? AND google_contact_id IS NOT NULL
\*   AND google_contact_id NOT IN (...), then the 200 answer.
SyncCleanup(p) ==
  /\ req[p].kind = "sync" /\ req[p].pc = "cleanup"
  /\ LET r == req[p]
         tbls == [tables EXCEPT !.contacts =
                    {c \in @ : ~(c.user_id = r.uid /\ c.google_contact_id \notin r.fetched)}]
     IN /\ tables' = tbls
        /\ req' = [req EXCEPT ![p] = [r EXCEPT !.writes = @ + 1, !.pc = "done", !.status = 200,
                                        !.listed = StoredContacts(tbls, r.uid)]]
  /\ UNCHANGED <<users, nextId, now, nextTok, started, issued, disconnected, resolved, oauthClient, grants>>

\* ---------------------------------------------------------------------------
\* The session assertion itself, and the handlers behind the session
\* middlewares.  A handler with a single statement is one step.
\* ---------------------------------------------------------------------------
JwtSecret == "JWT_SECRET"

\* expiresIn: '1h', in minutes.
SESSION_LIFE == 60

\* jwt.sign({ userId }, jwtSecret, { expiresIn: '1h' }) at time t.
GenerateAppJwtToken(userId, jwtSecret, t) ==
  [userId |-> userId, exp |-> t + SESSION_LIFE, key |-> jwtSecret]

\* When the cookies in circulation were issued: an hour before the first
\* state, and at the first state.
IssuedAt == {0 - SESSION_LIFE, 0}

\* A request without the cookie.
NoCookie == [userId |-> Null, exp |-> 0, key |-> "none"]

\* The cookies a client may present: one the callback issued, or one signed
\* with another key.
SessionTokens ==
  {GenerateAppJwtToken(u, JwtSecret, t) : u \in 1..NumIds, t \in IssuedAt}
    \cup {GenerateAppJwtToken(u, "forged", 0) : u \in 1..NumIds}

\* What jwt.verify(token, req.jwtSecret) makes of the cookie at time t: the
\* signature is checked before the expiry.
Presented(token, t) ==
  IF token = NoCookie THEN "missing"
  ELSE IF token.key # JwtSecret THEN "invalid"
  ELSE IF t >= token.exp THEN "expired"
  ELSE "valid"

\* The handlers: the controllers behind verifyAuthToken (req.userId), the
\* routes of api.js and note.js behind authenticateToken (req.user.userId),
\* the earlier profile controller behind the earlier verifyAuthToken
\* (req.user.uid), and the profile controller revision that follows
\* module.exports in api.js (req.userId, WHERE google_id = ?).
Controllers == {"controller", "api", "note", "earlier", "pasted"}

MiddlewareOf(controller) ==
  IF controller \in {"api", "note"} THEN "authenticateToken" ELSE "verifyAuthToken"

\* What the middleware in front of the controller puts on the request from
\* the decoded payload; Null is a property that was never set.
Attach(controller, decoded) ==
  IF controller \in {"api", "note"}
  THEN [userId |-> Null, user_uid |-> Null, user_userId |-> decoded.userId]
  ELSE IF controller = "earlier"
  THEN [userId |-> Null, user_uid |-> decoded.userId, user_userId |-> Null]
  ELSE [userId |-> decoded.userId, user_uid |-> Null, user_userId |-> Null]

\* Mutant: every handler reads req.user.uid.
ReadsUserId_Uid(controller, request) == request.user_uid

\* const userId = req.userId / req.user.userId / req.user.uid
ReadsUserId(controller, request) ==
  IF controller \in {"api", "note"} THEN request.user_userId
  ELSE IF controller = "earlier" THEN request.user_uid
  ELSE request.userId

\* The request as the handler finds it: turned away by the middleware, or
\* with the user id the handler reads.
Admitted(kind, controller, u, token, t) ==
  LET status == SessionCheck(MiddlewareOf(controller), Presented(token, t))
      r == [Idle EXCEPT !.kind = kind, !.route = controller, !.bearer = u,
                        !.cred = Presented(token, t), !.checkedAt = t]
  IN IF status # 0 THEN [r EXCEPT !.pc = "done", !.status = status]
     ELSE [r EXCEPT !.pc = "handler", !.uid = ReadsUserId(controller, Attach(controller, token))]

\* WHERE id = ? AND user_id = ?
Owns(row, id, u) == row.id = id /\ row.user_id = u

\* The status after an UPDATE or DELETE that matched no row: the
\* controllers and api.js answer 404 when affectedRows is 0; note.js does
\* not look at the result and answers 200.
NoRowStatus(controller) == IF controller = "note" THEN 200 ELSE 404

RowOps == {"list", "update", "delete"}

\* The owner of row id of the table, Null when there is no such row.
OwnerOf(rows, id) ==
  IF \E n \in rows : n.id = id THEN (CHOOSE n \in rows : n.id = id).user_id ELSE Null

\* The cookie a client of user u may present.
CookiesOf(u) == {token \in SessionTokens : token.userId = u} \cup {NoCookie}

\* What the handler does to the rows of its table, for the user id it read.
RowsAfter(rows, op, id, content, u) ==
  IF op = "update"
  THEN {IF Owns(n, id, u) THEN [n EXCEPT !.content = content] ELSE n : n \in rows}
  ELSE IF op = "delete" THEN {n \in rows : ~Owns(n, id, u)}
  ELSE rows

\* GET, PUT /:id and DELETE /:id on notes and reminders.  A request the
\* middleware turns away, or whose handler reads no user id and has its
\* statement refused (500), ends there.
RowRequest(p) ==
  /\ LowestFree(p)
  /\ started < MaxReq
  /\ \E u \in 1..NumIds, controller \in {"controller", "api", "note"} :
     \E token \in CookiesOf(u) :
       LET a == Admitted("rows", controller, u, token, now) IN
         IF a.pc = "done" \/ a.uid = Null
         THEN /\ tables' = tables
              /\ req' = [req EXCEPT ![p] = [a EXCEPT !.pc = "done",
                           !.status = IF a.pc = "done" THEN @ ELSE 500]]
         ELSE \E table \in OwnedTables, op \in RowOps, id \in 1..MaxRows, content \in Contents :
                /\ controller = "note" => table = "notes"
                /\ op = "list" => (id = 1 /\ content = "a")
                /\ op = "delete" => content = "a"
                /\ LET rows == RowsOf(tables, table)
                       after == RowsAfter(rows, op, id, content, a.uid)
                       hit == \E n \in rows : Owns(n, id, a.uid)
                   IN /\ tables' = WithRows(tables, table, after)
                      /\ req' = [req EXCEPT ![p] =
                           IF op = "list"
                           THEN [a EXCEPT !.op = op, !.pc = "done", !.status = 200,
                                   !.listed = {<<n.id, n.user_id>> :
                                                 n \in {x \in rows : x.user_id = a.uid}}]
                           ELSE [a EXCEPT !.op = op, !.pc = "done", !.found = id, !.hit = hit,
                                   !.owner = OwnerOf(rows, id), !.writes = 1,
                                   !.removed = IF after # rows THEN {<<table, id>>} ELSE {},
                                   !.status = IF hit THEN 200 ELSE NoRowStatus(controller)]]
  /\ started' = started + 1
  /\ UNCHANGED <<users, nextId, now, nextTok, issued, disconnected, resolved, oauthClient, grants>>

\* The users rows a profile statement matches: WHERE id = ?, or, in the
\* revision inside api.js, WHERE google_id = ?.
Matching(tbl, controller, userId) ==
  {v \in DOMAIN tbl : IF controller = "pasted" THEN tbl[v].google_id = userId ELSE v = userId}

ProfileOps == {"read", "disconnect", "delete"}

\* getUserProfile, disconnectGoogleAccount and deleteUserAccount of the
\* profile controller: one SELECT, one UPDATE, one DELETE.  (The earlier
\* controller's deleteUserAccount, with its four statements, is the purge
\* above; its disconnectGoogleAccount writes google_connected only.)
ProfileRequest(p) ==
  /\ LowestFree(p)
  /\ started < MaxReq
  /\ \E u \in 1..NumIds, controller \in {"controller", "earlier", "pasted"} :
     \E token \in CookiesOf(u) :
       LET a == Admitted("profile", controller, u, token, now) IN
         IF a.pc = "done" \/ a.uid = Null
         THEN /\ users' = users /\ tables' = tables
              /\ req' = [req EXCEPT ![p] = [a EXCEPT !.pc = "done",
                           !.status = IF a.pc = "done" THEN @ ELSE 500]]
         ELSE \E op \in ProfileOps :
                /\ controller = "earlier" => op = "read"
                /\ LET match == Matching(users, controller, a.uid)
                       after == IF op = "disconnect"
                                THEN [v \in DOMAIN users |->
                                        IF v \in match THEN NullifyTokens(users[v]) ELSE users[v]]
                                ELSE IF op = "delete"
                                THEN [v \in DOMAIN users \ match |-> users[v]]
                                ELSE users
                   IN /\ users' = after
                      /\ tables' = IF op = "delete"
                                   THEN [tables EXCEPT
                                           !.notes = {n \in @ : n.user_id \notin match},
                                           !.reminders = {n \in @ : n.user_id \notin match}]
                                   ELSE tables
                      /\ req' = [req EXCEPT ![p] = [a EXCEPT !.op = op, !.pc = "done",
                                   !.found = IF match = {} THEN Null ELSE CHOOSE v \in match : TRUE,
                                   !.hit = match # {},
                                   !.writes = IF op = "read" THEN 0 ELSE 1,
                                   !.touched = {v \in DOMAIN users :
                                                  v \notin DOMAIN after \/ after[v] # users[v]},
                                   !.status = IF match = {} /\ op # "disconnect" THEN 404 ELSE 200]]
  /\ started' = started + 1
  /\ UNCHANGED <<nextId, now, nextTok, issued, disconnected, resolved, oauthClient, grants>>

\* ---------------------------------------------------------------------------
\* The clock.
\* ---------------------------------------------------------------------------
Tick ==
  /\ now < MaxTime
  /\ now' = now + 1
  /\ UNCHANGED <<users, nextId, nextTok, started, req, issued, disconnected, resolved, oauthClient, grants, tables>>

Next ==
  \/ Tick
  \/ \E p \in Slots : StartCallback(p)
  \/ \E p \in Slots : ExchangeOk(p)
  \/ \E p \in Slots : ExchangeFail(p)
  \/ \E p \in Slots : CallbackLookup(p)
  \/ \E p \in Slots : CallbackWrite(p)
  \/ \E p \in Slots : StartGuard(p)
  \/ \E p \in Slots : GuardLoad(p)
  \/ \E p \in Slots : GuardCheck(p)
  \/ \E p \in Slots : RefreshOk(p)
  \/ \E p \in Slots : RefreshFail(p)
  \/ \E p \in Slots : GuardPersist(p)
  \/ \E p \in Slots : ContactsReread(p)
  \/ \E p \in Slots : StartPhotos(p)
  \/ \E p \in Slots : PhotosLoad(p)
  \/ \E p \in Slots : StartDisconnect(p)
  \/ \E p \in Slots : DisconnectLoad(p)
  \/ \E p \in Slots : RevokeAnswered(p)
  \/ \E p \in Slots : RevokeThrows(p)
  \/ \E p \in Slots : DisconnectNullify(p)

Spec == Init /\ [][Next]_vars

\* ---------------------------------------------------------------------------
\* Two registered users and the guarded routes only: the refreshes of
\* different users that meet in the one oauthClient of the contacts route.
\* User 1 logged in long ago, user 2 just now; both with offline access.
\* ---------------------------------------------------------------------------
InitShared ==
  /\ users = (1 :> NewRow(1, [access_token |-> 101, refresh_token |-> 102, expiry |-> 0])
              @@ 2 :> NewRow(2, [access_token |-> 103, refresh_token |-> 104, expiry |-> LongLife]))
  /\ nextId = 3
  /\ now = 0
  /\ nextTok = 1
  /\ started = 0
  /\ req = [p \in Slots |-> Idle]
  /\ issued = {<<101, 0>>, <<103, LongLife>>}
  /\ disconnected = {}
  /\ resolved = {<<1, 1>>, <<2, 2>>}
  /\ oauthClient = Null
  /\ grants = {<<101, 1>>, <<102, 1>>, <<103, 2>>, <<104, 2>>}
  /\ tables = NoRows

NextShared ==
  \/ Tick
  \/ \E p \in Slots : StartGuard(p)
  \/ \E p \in Slots : GuardLoad(p)
  \/ \E p \in Slots : GuardCheck(p)
  \/ \E p \in Slots : RefreshOk(p)
  \/ \E p \in Slots : RefreshFail(p)
  \/ \E p \in Slots : GuardPersist(p)
  \/ \E p \in Slots : ContactsReread(p)

SpecShared == InitShared /\ [][NextShared]_vars

\* ---------------------------------------------------------------------------
\* One registered user, the guarded routes, the session middlewares and
\* the deletion of the account.
\* ---------------------------------------------------------------------------
InitAccount ==
  /\ users = (1 :> NewRow(1, [access_token |-> 101, refresh_token |-> 102, expiry |-> LongLife]))
  /\ nextId = 2
  /\ now = 0
  /\ nextTok = 1
  /\ started = 0
  /\ req = [p \in Slots |-> Idle]
  /\ issued = {<<101, LongLife>>}
  /\ disconnected = {}
  /\ resolved = {<<1, 1>>}
  /\ oauthClient = Null
  /\ grants = {<<101, 1>>, <<102, 1>>}
  /\ tables = NoRows

NextAccount ==
  \/ Tick
  \/ \E p \in Slots : CreateRow(p)
  \/ \E p \in Slots : StartPurge(p)
  \/ \E p \in Slots : PurgeOwned(p)
  \/ \E p \in Slots : PurgeUser(p)
  \/ \E p \in Slots : PurgeFails(p)
  \/ \E p \in Slots : StartDisconnect(p)
  \/ \E p \in Slots : DisconnectLoad(p)
  \/ \E p \in Slots : DisconnectNullify(p)
  \/ \E p \in Slots : SessionRejected(p)
  \/ \E p \in Slots : StartGuard(p)
  \/ \E p \in Slots : GuardLoad(p)
  \/ \E p \in Slots : GuardCheck(p)
  \/ \E p \in Slots : RefreshOk(p)
  \/ \E p \in Slots : RefreshFail(p)
  \/ \E p \in Slots : GuardPersist(p)
  \/ \E p \in Slots : ContactsReread(p)
  \/ \E p \in Slots : StartDelete(p)
  \/ \E p \in Slots : DeleteLoad(p)
  \/ \E p \in Slots : RevokeAnswered(p)
  \/ \E p \in Slots : RevokeThrows(p)
  \/ \E p \in Slots : DeleteRow(p)

SpecAccount == InitAccount /\ [][NextAccount]_vars

\* Two registered users and their rows: the subject with google_id 2 signed
\* in first and has users.id 1, the subject with google_id 1 has users.id 2.
\* Each has one note and one reminder.
InitOwned ==
  /\ users = (1 :> NewRow(2, [access_token |-> 101, refresh_token |-> 102, expiry |-> LongLife])
              @@ 2 :> NewRow(1, [access_token |-> 103, refresh_token |-> 104, expiry |-> LongLife]))
  /\ nextId = 3
  /\ now = 0
  /\ nextTok = 1
  /\ started = 0
  /\ req = [p \in Slots |-> Idle]
  /\ issued = {<<101, LongLife>>, <<103, LongLife>>}
  /\ disconnected = {}
  /\ resolved = {<<2, 1>>, <<1, 2>>}
  /\ oauthClient = Null
  /\ grants = {<<101, 2>>, <<102, 2>>, <<103, 1>>, <<104, 1>>}
  /\ tables = [notes |-> {[id |-> u, user_id |-> u, content |-> "a"] : u \in 1..2},
               reminders |-> {[id |-> u, user_id |-> u, content |-> "a"] : u \in 1..2},
               contacts |-> {},
               seq |-> [notes |-> 3, reminders |-> 3]]

NextOwned ==
  \/ Tick
  \/ \E p \in Slots : RowRequest(p)
  \/ \E p \in Slots : ProfileRequest(p)

SpecOwned == InitOwned /\ [][NextOwned]_vars

\* One registered user whose row may hold any combination of an access
\* token or none, a refresh token or none, and an expiry: none, one long
\* past, one that the grace period reaches while the clock runs, and one
\* it does not reach.
ExpiryValues == {Null, 0, REFRESH_SKEW + 1, MaxTime + REFRESH_SKEW + 1}

InitDecide ==
  /\ \E a \in {Null, 101}, f \in {Null, 102}, e \in ExpiryValues :
       users = (1 :> NewRow(1, [access_token |-> a, refresh_token |-> f, expiry |-> e]))
  /\ nextId = 2
  /\ now = 0
  /\ nextTok = 1
  /\ started = 0
  /\ req = [p \in Slots |-> Idle]
  /\ issued = {<<101, MaxTime + REFRESH_SKEW + 1>>}
  /\ disconnected = {}
  /\ resolved = {<<1, 1>>}
  /\ oauthClient = Null
  /\ grants = {<<101, 1>>, <<102, 1>>}
  /\ tables = NoRows

SpecDecide == InitDecide /\ [][NextShared]_vars

\* One registered user with one contact stored by an earlier sync.
InitSync ==
  /\ users = (1 :> NewRow(1, [access_token |-> 101, refresh_token |-> 102, expiry |-> LongLife]))
  /\ nextId = 2
  /\ now = 0
  /\ nextTok = 1
  /\ started = 0
  /\ req = [p \in Slots |-> Idle]
  /\ issued = {<<101, LongLife>>}
  /\ disconnected = {}
  /\ resolved = {<<1, 1>>}
  /\ oauthClient = Null
  /\ grants = {<<101, 1>>, <<102, 1>>}
  /\ tables = [NoRows EXCEPT !.contacts = {[user_id |-> 1, google_contact_id |-> 1]}]

NextSync ==
  \/ \E p \in Slots : StartSync(p)
  \/ \E p \in Slots : SyncFetch(p)
  \/ \E p \in Slots : SyncFails(p)
  \/ \E p \in Slots : SyncSave(p)
  \/ \E p \in Slots : SyncCleanup(p)

SpecSync == InitSync /\ [][NextSync]_vars

NextRefresh ==
  \/ NextShared
  \/ \E p \in Slots : RefreshOkBare(p)
  \/ \E p \in Slots : PersistBare(p)

\* One registered user whose access token has expired.
InitRefresh ==
  /\ users = (1 :> NewRow(1, [access_token |-> 101, refresh_token |-> 102, expiry |-> 0]))
  /\ nextId = 2
  /\ now = 0
  /\ nextTok = 1
  /\ started = 0
  /\ req = [p \in Slots |-> Idle]
  /\ issued = {<<101, 0>>}
  /\ disconnected = {}
  /\ resolved = {<<1, 1>>}
  /\ oauthClient = Null
  /\ grants = {<<101, 1>>, <<102, 1>>}
  /\ tables = NoRows

SpecRefresh == InitRefresh /\ [][NextRefresh]_vars

\* ===========================================================================
\* Properties
\* ===========================================================================

\* A guard request whose expiry check has run.
Checked(r) == r.kind = "guard" /\ r.checkedAt # Null

\* The loaded row's expiry is within REFRESH_SKEW of the time of the check,
\* or in the past, and the row has a refresh token.
ExpiredRefreshable(r) ==
  /\ r.snap.expiry # Null
  /\ r.snap.expiry - r.checkedAt < REFRESH_SKEW
  /\ r.snap.refresh_token # Null

FreshAtCheck(r) ==
  /\ r.snap.access_token # Null
  /\ r.snap.expiry # Null
  /\ r.snap.expiry - r.checkedAt > REFRESH_SKEW

\* C2: for a row with an access token that expires more than REFRESH_SKEW
\* after the current time, the guard hands on the stored token, makes no
\* call to the token endpoint and writes nothing.
C2_FreshTokenReturnedUntouched ==
  \A p \in Slots :
    LET r == req[p] IN
      (Checked(r) /\ FreshAtCheck(r)) =>
        /\ r.calls = 0
        /\ r.writes = 0
        /\ r.handed = r.snap.access_token
        /\ r.pc \in {"reread", "done"}
        /\ (r.route # "contacts1" => r.sent = r.snap.access_token /\ r.status = 200)

C2_Witness ==
  \E p \in Slots :
    LET r == req[p] IN
      /\ Checked(r) /\ FreshAtCheck(r)
      /\ r.pc = "done" /\ r.status = 200
      /\ r.handed = r.snap.access_token /\ r.calls = 0 /\ r.writes = 0

\* The loaded row has no refresh token, and its access token is missing or
\* its expiry is within REFRESH_SKEW of the time of the check or in the past.
NoRecovery(r) ==
  /\ r.snap.refresh_token = Null
  /\ \/ r.snap.access_token = Null
     \/ (r.snap.expiry # Null /\ r.snap.expiry - r.checkedAt < REFRESH_SKEW)

\* C3: for a row without refresh token whose access token is missing or
\* expired, the guard ends with 401, calls nothing and writes nothing.
C3_NoRefreshTokenMeansReauth ==
  \A p \in Slots :
    LET r == req[p] IN
      (Checked(r) /\ NoRecovery(r)) =>
        /\ r.pc = "done"
        /\ r.status = 401
        /\ r.calls = 0
        /\ r.writes = 0
        /\ r.handed = Null
        /\ r.sent = Null

C3_Witness ==
  \E p \in Slots :
    LET r == req[p] IN
      /\ Checked(r) /\ NoRecovery(r)
      /\ r.snap.access_token # Null
      /\ r.pc = "done" /\ r.status = 401 /\ r.calls = 0 /\ r.writes = 0

\* C4: when the provider's token response carries no refresh_token, the
\* UPDATE of the callback (on a registered user) and the UPDATE of the
\* refresh leave the row's refresh_token as it was.
C4_RefreshTokenPreserved ==
  \A p \in Slots :
    LET r == req[p] IN
      (r.kind \in {"callback", "guard"} /\ r.op = "update" /\ r.hit
         /\ r.resp.refresh_token = Null) =>
        r.after.refresh_token = r.before.refresh_token

\* C5: when a disconnect for an existing user has completed, the row's
\* access_token, refresh_token and access_token_expires_at are null,
\* whatever became of the remote revocation.
C5_DisconnectAlwaysClears ==
  \A p \in Slots :
    LET r == req[p] IN
      (r.kind = "disconnect" /\ r.pc = "done" /\ r.found # Null) =>
        r.after = NoTokens

\* C6: a user whose tokens the revoker has nulled has no access token until
\* a callback writes that row again.
C6_DisconnectedStaysNull ==
  \A u \in disconnected : Stored(users, u).access_token = Null

C9_SecondLoginUpdatesInPlace ==
  \A p \in Slots :
    LET r == req[p] IN
      (r.kind = "callback" /\ r.pc = "done" /\ r.resp.access_token # Null
         /\ r.prior # {}) =>
        /\ r.redirect = "dashboard"
        /\ r.op = "update"
        /\ r.uid \in r.prior
        /\ (r.hit => r.count = 1 /\ r.after.access_token = r.resp.access_token)

C9_Witness ==
  \E p \in Slots :
    LET r == req[p] IN
      /\ r.kind = "callback" /\ r.pc = "done" /\ r.prior # {}
      /\ r.op = "update" /\ r.uid \in r.prior /\ r.count = 1
      /\ Stored(users, r.uid).access_token = r.resp.access_token
      /\ DOMAIN users = {r.uid}

\* C10: the token a handler sends to a Google resource API is the token the
\* guard handed on for that request.
C10_SentTokenCameFromGuard ==
  \A p \in Slots :
    req[p].sent # Null => req[p].sent = req[p].handed

\* C11: in every row, access_token_expires_at is null exactly when
\* google_access_token is null, whatever callbacks, refreshes and
\* disconnects have written it.
C11_ExpiryNullIffTokenNull ==
  \A u \in DOMAIN users :
    (users[u].access_token_expires_at = Null) <=> (users[u].google_access_token = Null)

\* A row that a callback has filled, a refresh has rewritten and a
\* disconnect has nulled.
C11_Witness ==
  \E p \in Slots, q \in Slots :
    /\ req[p].kind = "guard" /\ req[p].pc = "done" /\ req[p].writes = 1 /\ req[p].hit
    /\ req[q].kind = "disconnect" /\ req[q].pc = "done" /\ req[q].uid = req[p].uid
    /\ req[q].before.access_token = req[p].resp.access_token
    /\ req[q].before.expiry # Null
    /\ Stored(users, req[q].uid) = NoTokens

\* C12: a guard whose refresh call the provider has failed ends with 401,
\* has made that one refresh call and no other, has written nothing and
\* has sent nothing to a resource API.
C12_RefreshFailureMeansReauth ==
  \A p \in Slots :
    LET r == req[p] IN
      (r.kind = "guard" /\ r.remote = "refresh_failed") =>
        /\ r.pc = "done"
        /\ r.status = 401
        /\ r.calls = 1
        /\ r.writes = 0
        /\ r.handed = Null
        /\ r.sent = Null

\* C13: a callback whose code exchange failed, or whose id_token failed
\* verification, ends in the redirect to the login page, has written
\* nothing to the users table and has signed no session.
C13_FailedExchangeWritesNothing ==
  \A p \in Slots :
    LET r == req[p] IN
      (r.kind = "callback" /\ r.remote \in {"exchange_failed", "verify_failed"}) =>
        /\ r.writes = 0
        /\ r.op = "none"
        /\ r.uid = Null
        /\ r.uid \notin Sessions
        /\ (r.pc = "done" => r.redirect = "login")

\* Both kinds of failure have happened and the table is still empty.
C13_Witness ==
  \E p \in Slots, q \in Slots :
    /\ req[p].kind = "callback" /\ req[p].remote = "exchange_failed" /\ req[p].pc = "done"
    /\ req[q].kind = "callback" /\ req[q].remote = "verify_failed" /\ req[q].pc = "done"
    /\ DOMAIN users = {}
    /\ resolved = {}

\* C14: a disconnect that has finished has sent every token that was in
\* the row, access token and refresh token alike, to the revoke endpoint.
C14_EveryStoredTokenRevoked ==
  \A p \in Slots :
    LET r == req[p] IN
      (r.kind = "disconnect" /\ r.pc = "done" /\ r.found # Null) =>
        r.revoked = {r.snap.access_token, r.snap.refresh_token} \ {Null}

\* C15: a disconnect whose revoke call failed (the provider refused it or
\* could not be reached) does not end in a server error, and has nulled
\* the row's token columns.
C15_RevokeFailureIsNotFatal ==
  \A p \in Slots :
    LET r == req[p] IN
      (r.kind = "disconnect" /\ r.pc = "done" /\ r.found # Null
         /\ r.remote \in {"rejected", "threw"}) =>
        /\ r.status < 500
        /\ r.after = NoTokens

\* C16: a disconnect that finds the row with access token and refresh
\* token both null makes no call to the revoke endpoint, answers 200 and
\* leaves the token columns null.
C16_NothingToRevokeIsAck ==
  \A p \in Slots :
    LET r == req[p] IN
      (r.kind = "disconnect" /\ r.found # Null
         /\ r.snap.access_token = Null /\ r.snap.refresh_token = Null) =>
        /\ r.revokes = 0
        /\ r.revoked = {}
        /\ r.remote = "none"
        /\ r.pc \in {"nullify", "done"}
        /\ (r.pc = "done" => r.status = 200 /\ r.after = NoTokens)

\* A disconnect of a user who was disconnected already.
C16_Witness ==
  \E p \in Slots :
    LET r == req[p] IN
      /\ r.kind = "disconnect" /\ r.pc = "done" /\ r.found # Null
      /\ r.snap = NoTokens /\ r.before = NoTokens
      /\ r.revokes = 0 /\ r.status = 200
      /\ r.uid \in disconnected
      /\ Stored(users, r.uid) = NoTokens

\* C19: a proxy request (a guarded route or the photos route) that has
\* ended without a Google access token to send was answered 401.
C19_NoUsableTokenMeans401 ==
  \A p \in Slots :
    LET r == req[p] IN
      (r.kind \in {"guard", "photos"} /\ r.pc = "done" /\ r.sent = Null) =>
        r.status = 401

\* C17: the refresh token a guard sends with its refresh call is the one
\* it loaded from its own user's row, also when refreshes of other users
\* set the credentials of the shared oauthClient in between; and the
\* access token in a row was granted to the subject of that row.
C17_RefreshSendsOwnRefreshToken ==
  /\ \A p \in Slots :
       LET r == req[p] IN
         (r.kind = "guard" /\ r.calls > 0) => r.clientSent = r.snap.refresh_token
  /\ \A u \in DOMAIN users :
       users[u].google_access_token # Null =>
         GrantedTo(users[u].google_access_token) = {users[u].google_id}

\* Two users' refreshes met in the shared client: q set its credentials
\* while p's call was outstanding, and p has since written its row.
C17_Witness ==
  \E p \in Slots, q \in Slots :
    /\ req[p].kind = "guard" /\ req[q].kind = "guard"
    /\ ~UsesMiddleware(req[p].route) /\ ~UsesMiddleware(req[q].route)
    /\ req[p].uid # req[q].uid
    /\ req[p].pc = "done" /\ req[p].writes = 1 /\ req[p].hit
    /\ req[q].pc = "refresh"
    /\ req[q].checkedAt # Null /\ req[q].clientSent = oauthClient
    /\ req[p].clientSent # oauthClient
    /\ users[req[p].uid].google_access_token = req[p].resp.access_token

\* C18: a request that a session middleware has turned away (no cookie, a
\* cookie that does not verify, a cookie that has run out) was answered
\* 401, and nothing of the handler has run.
C18_BadSessionMeans401 ==
  \A p \in Slots :
    LET r == req[p] IN
      r.kind = "session" =>
        /\ r.status = 401
        /\ r.pc = "done"
        /\ r.writes = 0 /\ r.calls = 0 /\ r.sent = Null

\* C20: a guard whose session verified and whose SELECT found no row for
\* the internal id answers 401, and has called neither the token endpoint
\* nor a resource API.
C20_NoRowMeansReauth ==
  \A p \in Slots :
    LET r == req[p] IN
      (r.kind = "guard" /\ r.pc = "done" /\ r.found = Null) =>
        /\ r.status = 401
        /\ r.calls = 0
        /\ r.sent = Null


\* ---------------------------------------------------------------------------
\* Account deletion and the rows the account owns.
\* ---------------------------------------------------------------------------
\* The requests that delete an account: /auth/delete and deleteUserAccount.
Deletions == {"delete", "purge"}

C22_CompletedDeleteHasNoRow ==
  \A p \in Slots :
    (req[p].kind = "delete" /\ req[p].cred = "valid" /\ req[p].pc = "done")
      => req[p].uid \notin DOMAIN users

\* C26: a disconnect or deletion request whose session cookie is missing,
\* invalid or expired writes no users row and sends nothing to the revoke
\* endpoint.
C26_BadSessionTouchesNothing ==
  \A p \in Slots :
    (req[p].kind \in {"disconnect", "delete"} /\ req[p].cred \in SessionCookies \ {"valid"})
      => /\ req[p].writes = 0
         /\ req[p].revokes = 0
         /\ req[p].revoked = {}
         /\ req[p].op = "none"

\* A disconnect request with an expired cookie and a deletion request with
\* an invalid one have both been answered, and the registered row still
\* holds its tokens.
C26_Witness ==
  /\ \E p \in Slots : /\ req[p].kind = "disconnect" /\ req[p].cred = "expired"
                      /\ req[p].pc = "done" /\ req[p].status = 500
  /\ \E p \in Slots : /\ req[p].kind = "delete" /\ req[p].cred = "invalid"
                      /\ req[p].pc = "done" /\ req[p].status = 500
  /\ 1 \in DOMAIN users /\ users[1].google_access_token # Null

\* C27: an account deletion that answers with an error has removed nothing:
\* not the users row, not a note, not a reminder.
C27_FailedDeletionRemovesNothing ==
  \A p \in Slots :
    (req[p].kind \in Deletions /\ req[p].pc = "done" /\ req[p].status >= 400)
      => /\ req[p].removed = {}
         /\ req[p].op # "delete"


\* ---------------------------------------------------------------------------
\* Whose rows a request reaches.
\* ---------------------------------------------------------------------------
\* C23: a write to the users table made for user u changes the row with
\* primary key u and no other row.
C23_WritesOnlyOwnRow ==
  \A p \in Slots :
    req[p].kind = "profile" => req[p].touched \subseteq {req[p].bearer}

C29_OthersRowsAreNotFound ==
  \A p \in Slots :
    req[p].kind = "rows" /\ req[p].uid # Null
      => /\ \A l \in req[p].listed : l[2] = req[p].uid
         /\ (req[p].op \in {"update", "delete"} /\ req[p].owner \notin {Null, req[p].uid})
              => (req[p].removed = {} /\ req[p].status = 404)


\* ---------------------------------------------------------------------------
\* The two expiry checks side by side.
\* ---------------------------------------------------------------------------
\* C28: authenticateToken and the guard inside GET /contacts, looking at
\* the same row at the same time, take the same decision among use, refresh
\* and re-authentication.
C28_GuardsDecideAlike ==
  \A p, q \in Slots :
    (/\ req[p].kind = "guard" /\ req[p].route = "api" /\ req[p].decision # "none"
     /\ req[q].kind = "guard" /\ req[q].route = "contacts2" /\ req[q].decision # "none"
     /\ req[p].snap = req[q].snap /\ req[p].checkedAt = req[q].checkedAt)
      => req[p].decision = req[q].decision


\* ---------------------------------------------------------------------------
\* The expiry a refresh stores.
\* ---------------------------------------------------------------------------
\* C25: when a refresh has succeeded and the guard has moved on, the row
\* holds the new access token, the refresh token it had, and the time of
\* the refresh plus the lifetime of the response as expiry; and for a
\* lifetime longer than the grace period a check of that row at that time
\* uses the token without another refresh.
C25_RefreshStoresNowPlusLifetime ==
  \A p \in Slots :
    LET r == req[p] IN
      (r.kind = "guard" /\ r.life # Null /\ r.pc \in {"reread", "done"} /\ r.hit)
        => /\ r.after = [access_token |-> r.resp.access_token,
                         refresh_token |-> r.before.refresh_token,
                         expiry |-> r.refreshedAt + r.life]
           /\ r.life > REFRESH_SKEW => Decide(r.route, r.after, r.refreshedAt) = "use"


\* ---------------------------------------------------------------------------
\* The contacts a sync leaves.
\* ---------------------------------------------------------------------------
\* C30: when a sync has answered with success, the user's stored contacts
\* with a google_contact_id are exactly the contacts Google returned to
\* that sync.
C30_SyncMirrorsGoogle ==
  \A p \in Slots :
    (req[p].kind = "sync" /\ req[p].pc = "done" /\ req[p].status = 200)
      => req[p].listed = req[p].fetched

====
